---- MODULE Spec2Model ----
(***************************************************************************)
(* Model of proxygen::HTTPSessionBase                                      *)
(* (proxygen/lib/http/session/HTTPSessionBase.cpp): the ingress            *)
(* flow-control accounting, the controller lifecycle and the dispatch of   *)
(* parse errors that arrive before a transaction has a handler.            *)
(*                                                                         *)
(* pendingReadSize_ and readBufLimit_ are uint32_t.  TLC's integers stop   *)
(* at 2^31-1, so a uint32_t is kept as two 16-bit halves [hi, lo] and the  *)
(* arithmetic below is the machine's arithmetic modulo 2^32.               *)
(***************************************************************************)
EXTENDS Integers, Sequences, FiniteSets, TLC

\* ------------------------------------------------------------------------
\* Bounds of the model
\* ------------------------------------------------------------------------

\* number of byte-path calls (onBody, notifyBodyProcessed) in one behaviour
\* of the flow-control specification
MaxCalls == 6

\* number of byte-path calls and calls of the setters (setController,
\* setSessionStats, setByteEventTracker) in one behaviour of the whole
\* session's specification, where they interleave with every other operation
MaxMixedCalls == 1

\* number of byte-path calls and calls of the setters in one behaviour of the
\* specification of the tracker, the stats observer and the controller
MaxSettingsCalls == 4

\* ------------------------------------------------------------------------
\* uint32_t
\* ------------------------------------------------------------------------

Half == 2^16

U32(h, l) == [hi |-> h, lo |-> l]

IsU32(a) == a.hi \in 0..(Half - 1) /\ a.lo \in 0..(Half - 1)

Zero32 == U32(0, 0)

\* a < b on uint32_t
Lt32(a, b) == a.hi < b.hi \/ (a.hi = b.hi /\ a.lo < b.lo)

Le32(a, b) == ~Lt32(b, a)

Gt32(a, b) == Lt32(b, a)

\* a + b on uint32_t: the sum wraps modulo 2^32
Add32(a, b) ==
  LET s == a.lo + b.lo
  IN  U32((a.hi + b.hi + (s \div Half)) % Half, s % Half)

\* a subtraction that leaves the value as it is
Sub32_off(a, b) ==
  a

\* a - b on uint32_t: the difference wraps modulo 2^32
Sub32(a, b) ==
  LET d == a.lo - b.lo
      borrow == IF d < 0 THEN 1 ELSE 0
  IN  U32((a.hi - b.hi - borrow) % Half, d % Half)

\* Integers beyond 32 bits, for the sums the counter is compared with: the
\* low half stays below 2^16 and the high half is not reduced
WideAdd(w, u) ==
  LET s == w.lo + u.lo
  IN  [hi |-> w.hi + u.hi + (s \div Half), lo |-> s % Half]

WideSub(w, u) ==
  LET d == w.lo - u.lo
      borrow == IF d < 0 THEN 1 ELSE 0
  IN  [hi |-> w.hi - u.hi - borrow, lo |-> d % Half]

\* the sum is one a uint32_t holds
InRange32(w) == w.hi >= 0 /\ w.hi < Half

\* ------------------------------------------------------------------------
\* Inputs
\* ------------------------------------------------------------------------

NULL == "nullptr"

\* uint32_t HTTPSessionBase::kDefaultReadBufLimit = 65536
kDefaultReadBufLimit == U32(1, 0)

\* read buffer limits a session is configured with
Limits == {U32(0, 100), kDefaultReadBufLimit}

\* size_t length of onBody, as truncated to 32 bits by the += on the counter
Lengths == {U32(0, 0), U32(0, 50), U32(0, 100), U32(0, 150),
            U32(Half - 1, Half - 100)}

\* uint16_t padding of onBody
Paddings == {0, 10}

\* uint32_t bytes of notifyBodyProcessed
Bytes == {U32(0, 0), U32(0, 10), U32(0, 50), U32(0, 60), U32(0, 150)}

\* handlers a controller's getParseErrorHandler may produce
Handlers == {NULL, "handler"}

\* what a call through the null controller_ may do
NullCallOutcomes == {"crash", NULL, "handler"}

\* byte events a tracker may have pending
Entries == {"e1", "e2"}

\* ByteEventTracker::Callback* cb of setByteEventTracker
Callbacks == {"cb1", "cb2"}

\* HTTPSessionStats* stats of setSessionStats
StatsObservers == {NULL, "stats1", "stats2"}

\* a tracker as it is handed to setByteEventTracker: its own pending events,
\* no callback and no stats yet
\* HTTPSessionController* controller of the constructor and of setController
Controllers == {NULL, "controller"}

\* the null shared_ptr<ByteEventTracker>
NoTracker ==
  [present |-> FALSE, pending |-> {}, callback |-> NULL, stats |-> NULL]

NewTrackers ==
  {NoTracker} \cup
  {[present |-> TRUE, pending |-> p, callback |-> NULL, stats |-> NULL] :
     p \in SUBSET Entries}

\* the egress settings a codec may expose: none, or ENABLE_EX_HEADERS at 0
NoSettings == "none"


\* ------------------------------------------------------------------------
\* State
\* ------------------------------------------------------------------------

VARIABLES
  pendingReadSize_,  \* uint32_t: ingress bytes buffered and not yet processed
  readBufLimit_,     \* uint32_t: the watermark
  infoCallback_,     \* TRUE when an InfoCallback is set
  controller_,       \* NULL or the controller
  direction,         \* codec_->getTransportDirection()
  h2,                \* isHTTP2CodecProtocol(codec_->getProtocol())
  strategy,          \* header indexing strategy installed on the codec
  pc,                \* "idle", or "onIngressBody" while onBody is delivering
  frame,             \* onBody's locals while it is delivering
  failed,            \* the process was ended (CHECK failure, crash)
  last,              \* the call that returned last
  log,               \* calls made on collaborators by the current operation
  detachCount,       \* detachSession calls so far
  installs,          \* controllers set on the session so far
  tornDown,          \* runDestroyCallbacks has returned
  downCrossed,       \* no pause was signalled since the last resume signal
  nCalls,            \* byte-path calls and setter calls so far
  sumPending,        \* bytes added less bytes processed, as an integer
  budget,            \* byte-path and setter calls this behaviour may make
  detachSaw,         \* controller_ as the last detachSession call found it
  destroyPending,    \* destroy() was called while a DestructorGuard was held
  destroyed,         \* the session was deallocated
  byteEventTracker_, \* NoTracker or the stored tracker
  sessionStats_,     \* NULL or the stats observer
  lastTracker,       \* the last setByteEventTracker: arguments, old tracker
  everPending,       \* events that were pending on a stored tracker
  kept,              \* the same, since the stored tracker was last null
  prioritySample_,   \* feature flag
  h2PrioritiesEnabled_, \* feature flag
  exHeadersEnabled_, \* feature flag
  egressSettings     \* NoSettings, or the codec's ENABLE_EX_HEADERS setting

vars == <<pendingReadSize_, readBufLimit_, infoCallback_, controller_,
          direction, h2, strategy, pc, frame, failed, last, log,
          detachCount, installs, tornDown, downCrossed, nCalls,
          sumPending, budget, detachSaw,
          destroyPending, destroyed, byteEventTracker_, sessionStats_,
          lastTracker, everPending, kept, prioritySample_,
          h2PrioritiesEnabled_, exHeadersEnabled_, egressSettings>>

NoFrame == [oldSize |-> Zero32, added |-> Zero32, nested |-> 0, guard |-> FALSE]

\* a returned call: its name, its byte argument, the counter before and
\* after it, what it returned, whether it ended the process, the number of
\* notifyBodyProcessed calls made inside it, and the handler the controller
\* had to offer
Call(op, arg, before, after, ret, fatal, nested, answer) ==
  [op |-> op, arg |-> arg, before |-> before, after |-> after,
   ret |-> ret, fatal |-> fatal, nested |-> nested, answer |-> answer]

\* a returned call that takes no bytes and returns nothing
Plain(op) == Call(op, Zero32, Zero32, Zero32, FALSE, FALSE, 0, NULL)

NoCall == Plain("none")

\* the byte-event tracker and the stats observer
trackerVars == <<byteEventTracker_, sessionStats_, lastTracker, everPending,
                 kept>>

\* the feature flags and the codec's egress settings
flagVars == <<prioritySample_, h2PrioritiesEnabled_, exHeadersEnabled_,
              egressSettings>>

\* the fields no byte-path operation writes
sessionRefs == <<readBufLimit_, infoCallback_, controller_, direction, h2,
                 strategy, detachCount, installs, tornDown, budget, detachSaw,
                 trackerVars, flagVars>>

NoTrackerCall == [new |-> NoTracker, old |-> NoTracker, cb |-> NULL]

\* the lifetime of the session object
lifetime == <<destroyPending, destroyed>>

\* initCodecHeaderIndexingStrategy without its look at the codec's protocol
initCodecHeaderIndexingStrategy_anyCodec(ctrl, isH2) ==
  IF ctrl # NULL
  THEN <<"controller.getHeaderIndexingStrategy",
         "codec.setHeaderIndexingStrategy">>
  ELSE <<>>

\* initCodecHeaderIndexingStrategy: the calls it makes
initCodecHeaderIndexingStrategy(ctrl, isH2) ==
  IF ctrl # NULL /\ isH2
  THEN <<"controller.getHeaderIndexingStrategy",
         "codec.setHeaderIndexingStrategy">>
  ELSE <<>>

\* the codec's header indexing strategy once initCodecHeaderIndexingStrategy
\* has run on a codec that had strategy old
StrategyAfter(ctrl, isH2, old) ==
  IF initCodecHeaderIndexingStrategy(ctrl, isH2) # <<>>
  THEN "controller" ELSE old

\* HTTPSessionBase::HTTPSessionBase: the members after construction
Init ==
  /\ pendingReadSize_ = Zero32
  /\ readBufLimit_ \in Limits
  /\ infoCallback_ \in BOOLEAN
  /\ controller_ \in {NULL, "controller"}
  /\ direction \in {"UPSTREAM", "DOWNSTREAM"}
  /\ h2 \in BOOLEAN
  /\ strategy = StrategyAfter(controller_, h2, "default")
  /\ pc = "idle"
  /\ frame = NoFrame
  /\ failed = FALSE
  /\ last = NoCall
  /\ log = <<>>
  /\ detachCount = 0
  /\ installs = IF controller_ # NULL THEN 1 ELSE 0
  /\ tornDown = FALSE
  /\ downCrossed = TRUE
  /\ nCalls = 0
  /\ sumPending = Zero32
  /\ budget = MaxMixedCalls
  /\ detachSaw = NULL
  /\ destroyPending = FALSE
  /\ destroyed = FALSE
  /\ byteEventTracker_ = NoTracker
  /\ sessionStats_ = NULL
  /\ lastTracker = NoTrackerCall
  /\ everPending = {}
  /\ kept = {}
  /\ prioritySample_ = FALSE
  /\ h2PrioritiesEnabled_ = TRUE
  /\ exHeadersEnabled_ = FALSE
  /\ egressSettings = IF h2 THEN "0" ELSE NoSettings

\* a session with no controller, for the byte path alone
FlowInit ==
  /\ pendingReadSize_ = Zero32
  /\ readBufLimit_ \in Limits
  /\ infoCallback_ \in BOOLEAN
  /\ controller_ = NULL
  /\ direction = "DOWNSTREAM"
  /\ h2 = FALSE
  /\ strategy = StrategyAfter(controller_, h2, "default")
  /\ pc = "idle"
  /\ frame = NoFrame
  /\ failed = FALSE
  /\ last = NoCall
  /\ log = <<>>
  /\ detachCount = 0
  /\ installs = IF controller_ # NULL THEN 1 ELSE 0
  /\ tornDown = FALSE
  /\ downCrossed = TRUE
  /\ nCalls = 0
  /\ sumPending = Zero32
  /\ budget = MaxCalls
  /\ detachSaw = NULL
  /\ destroyPending = FALSE
  /\ destroyed = FALSE
  /\ byteEventTracker_ = NoTracker
  /\ sessionStats_ = NULL
  /\ lastTracker = NoTrackerCall
  /\ everPending = {}
  /\ kept = {}
  /\ prioritySample_ = FALSE
  /\ h2PrioritiesEnabled_ = TRUE
  /\ exHeadersEnabled_ = FALSE
  /\ egressSettings = NoSettings

\* a session for the tracker, the stats observer and the attachment to the
\* controller
SettingsInit ==
  /\ pendingReadSize_ = Zero32
  /\ readBufLimit_ = U32(0, 100)
  /\ infoCallback_ = TRUE
  /\ controller_ \in {NULL, "controller"}
  /\ direction = "DOWNSTREAM"
  /\ h2 = FALSE
  /\ strategy = StrategyAfter(controller_, h2, "default")
  /\ pc = "idle"
  /\ frame = NoFrame
  /\ failed = FALSE
  /\ last = NoCall
  /\ log = <<>>
  /\ detachCount = 0
  /\ installs = IF controller_ # NULL THEN 1 ELSE 0
  /\ tornDown = FALSE
  /\ downCrossed = TRUE
  /\ nCalls = 0
  /\ sumPending = Zero32
  /\ budget = MaxSettingsCalls
  /\ detachSaw = NULL
  /\ destroyPending = FALSE
  /\ destroyed = FALSE
  /\ byteEventTracker_ = NoTracker
  /\ sessionStats_ = NULL
  /\ lastTracker = NoTrackerCall
  /\ everPending = {}
  /\ kept = {}
  /\ prioritySample_ = FALSE
  /\ h2PrioritiesEnabled_ = TRUE
  /\ exHeadersEnabled_ = FALSE
  /\ egressSettings = NoSettings

\* ------------------------------------------------------------------------
\* Ingress flow control
\* ------------------------------------------------------------------------

\* the increment with the padding left out
Increment_noPadding(size, length, padding) == Add32(size, length)

\* pendingReadSize_ += length + padding
Increment(size, length, padding) == Add32(size, Add32(length, U32(0, padding)))

\* the pause test without its look at the size before the call
onBodyPause_level(oldSize, size, limit) ==
  /\ Lt32(oldSize, size)
  /\ Gt32(size, limit)

\* onBody's test after the delivery: the pause signal
onBodyPause(oldSize, size, limit) ==
  /\ Lt32(oldSize, size)
  /\ Gt32(size, limit)
  /\ Le32(oldSize, limit)

\* the decrement with its check left out
CHECK_GE_off(size, bytes) == TRUE

\* CHECK_GE(pendingReadSize_, bytes)
CHECK_GE(size, bytes) == ~Lt32(size, bytes)

\* the resume test on the level of the counter alone
notifyResume_level(oldSize, size, limit) ==
  Le32(size, limit)

\* the resume test with the limit itself counted as exceeded
notifyResume_strict(oldSize, size, limit) ==
  /\ Gt32(oldSize, limit)
  /\ Lt32(size, limit)

\* notifyBodyProcessed's test after the decrement: the resume signal
notifyResume(oldSize, size, limit) ==
  /\ Gt32(oldSize, limit)
  /\ Le32(size, limit)

\* onBody without its DestructorGuard
onBodyEnter_noGuard(length, padding) ==
  /\ pc = "idle" /\ ~failed /\ ~destroyed /\ nCalls < budget
  /\ frame' = [oldSize |-> pendingReadSize_,
               added |-> Add32(length, U32(0, padding)),
               nested |-> 0,
               guard |-> FALSE]
  /\ pendingReadSize_' = Increment(pendingReadSize_, length, padding)
  /\ pc' = "onIngressBody"
  /\ log' = <<"txn.onIngressBody">>
  /\ last' = NoCall
  /\ nCalls' = nCalls + 1
  /\ sumPending' = WideAdd(WideAdd(sumPending, length), U32(0, padding))
  /\ UNCHANGED <<sessionRefs, failed, downCrossed, lifetime>>

\* onBody up to and including the call of txn->onIngressBody
onBodyEnter(length, padding) ==
  /\ pc = "idle" /\ ~failed /\ ~destroyed /\ nCalls < budget
  /\ frame' = [oldSize |-> pendingReadSize_,
               added |-> Add32(length, U32(0, padding)),
               nested |-> 0,
               guard |-> TRUE]
  /\ pendingReadSize_' = Increment(pendingReadSize_, length, padding)
  /\ pc' = "onIngressBody"
  /\ log' = <<"txn.onIngressBody">>
  /\ last' = NoCall
  /\ nCalls' = nCalls + 1
  /\ sumPending' = WideAdd(WideAdd(sumPending, length), U32(0, padding))
  /\ UNCHANGED <<sessionRefs, failed, downCrossed, lifetime>>

\* onBody that lets go of the controller when it signals pause
onBodyLeave_dropsController ==
  /\ pc = "onIngressBody" /\ ~failed /\ ~destroyed
  /\ destroyed' = destroyPending
  /\ destroyPending' = FALSE
  /\ LET pause == onBodyPause(frame.oldSize, pendingReadSize_, readBufLimit_)
     IN  /\ log' = IF pause /\ infoCallback_
                   THEN Append(log, "info.onIngressLimitExceeded")
                   ELSE log
         /\ last' = Call("onBody", frame.added, frame.oldSize,
                         pendingReadSize_, pause, FALSE, frame.nested, NULL)
         /\ downCrossed' = IF pause THEN FALSE ELSE downCrossed
         /\ controller_' = IF pause THEN NULL ELSE controller_
  /\ pc' = "idle"
  /\ frame' = NoFrame
  /\ UNCHANGED <<pendingReadSize_, readBufLimit_, infoCallback_, direction,
                 h2, strategy, detachCount,
                 installs, tornDown, budget, detachSaw,
                 trackerVars, flagVars, failed, nCalls, sumPending>>

\* onBody after txn->onIngressBody has returned; the DestructorGuard goes
\* out of scope at the return, and a destruction it held back happens then
onBodyLeave ==
  /\ pc = "onIngressBody" /\ ~failed /\ ~destroyed
  /\ destroyed' = destroyPending
  /\ destroyPending' = FALSE
  /\ LET pause == onBodyPause(frame.oldSize, pendingReadSize_, readBufLimit_)
     IN  /\ log' = IF pause /\ infoCallback_
                   THEN Append(log, "info.onIngressLimitExceeded")
                   ELSE log
         /\ last' = Call("onBody", frame.added, frame.oldSize,
                         pendingReadSize_, pause, FALSE, frame.nested, NULL)
         /\ downCrossed' = IF pause THEN FALSE ELSE downCrossed
  /\ pc' = "idle"
  /\ frame' = NoFrame
  /\ UNCHANGED <<pendingReadSize_, sessionRefs, failed, nCalls, sumPending>>

\* notifyBodyProcessed, called by a transaction: on its own, or from inside
\* the onIngressBody that onBody is delivering
notifyBodyProcessed(bytes) ==
  /\ ~failed /\ ~destroyed /\ nCalls < budget
  /\ nCalls' = nCalls + 1
  /\ IF CHECK_GE(pendingReadSize_, bytes)
     THEN LET size == Sub32(pendingReadSize_, bytes)
              resume == notifyResume(pendingReadSize_, size, readBufLimit_)
          IN  /\ pendingReadSize_' = size
              /\ last' = Call("notifyBodyProcessed", bytes, pendingReadSize_,
                              size, resume, FALSE, 0, NULL)
              /\ downCrossed' = IF resume THEN TRUE ELSE downCrossed
              /\ failed' = FALSE
              /\ sumPending' = WideSub(sumPending, bytes)
     ELSE /\ failed' = TRUE
          /\ last' = Call("notifyBodyProcessed", bytes, pendingReadSize_,
                          pendingReadSize_, FALSE, TRUE, 0, NULL)
          /\ UNCHANGED <<pendingReadSize_, downCrossed, sumPending>>
  /\ IF pc = "onIngressBody"
     THEN /\ frame' = [frame EXCEPT !.nested = @ + 1]
          /\ log' = log
     ELSE /\ frame' = frame
          /\ log' = <<>>
  /\ UNCHANGED <<sessionRefs, pc, lifetime>>

\* destroy(), called on the session from outside or from inside the callbacks
\* of the delivery: with a DestructorGuard held the destruction is put off
\* until the guard is gone, without one the session is deallocated at once
destroy ==
  /\ ~failed /\ ~destroyed /\ ~destroyPending
  /\ IF frame.guard
     THEN /\ destroyPending' = TRUE
          /\ destroyed' = FALSE
     ELSE /\ destroyPending' = FALSE
          /\ destroyed' = TRUE
  /\ UNCHANGED <<pendingReadSize_, sessionRefs, pc, frame, failed, last, log,
                 downCrossed, nCalls, sumPending>>

\* ------------------------------------------------------------------------
\* Controller lifecycle
\* ------------------------------------------------------------------------

\* the teardown that leaves controller_ set
runDestroyCallbacks_keepsController ==
  /\ pc = "idle" /\ ~failed /\ ~destroyed
  /\ log' = (IF infoCallback_ THEN <<"info.onDestroy">> ELSE <<>>)
            \o (IF controller_ # NULL
                THEN <<"controller.detachSession">> ELSE <<>>)
  /\ detachCount' = IF controller_ # NULL THEN detachCount + 1 ELSE detachCount
  /\ detachSaw' = IF controller_ # NULL THEN controller_ ELSE detachSaw
  /\ tornDown' = TRUE
  /\ last' = Plain("runDestroyCallbacks")
  /\ UNCHANGED <<installs,
                 pendingReadSize_, readBufLimit_, infoCallback_, controller_,
                 direction, h2, strategy, pc, frame, failed, downCrossed,
                 nCalls, sumPending, budget, lifetime, trackerVars, flagVars>>

\* the teardown that clears controller_ before it calls detachSession, and
\* detaches before it notifies the info callback
runDestroyCallbacks_clearsFirst ==
  /\ pc = "idle" /\ ~failed /\ ~destroyed
  /\ log' = (IF controller_ # NULL
             THEN <<"controller.detachSession">> ELSE <<>>)
            \o (IF infoCallback_ THEN <<"info.onDestroy">> ELSE <<>>)
  /\ detachCount' = IF controller_ # NULL THEN detachCount + 1 ELSE detachCount
  /\ detachSaw' = NULL
  /\ controller_' = NULL
  /\ tornDown' = TRUE
  /\ last' = Plain("runDestroyCallbacks")
  /\ UNCHANGED <<installs,
                 pendingReadSize_, readBufLimit_, infoCallback_, direction, h2,
                 strategy, pc, frame, failed, downCrossed, nCalls,
                 sumPending, budget,
                 lifetime, trackerVars, flagVars>>

\* runDestroyCallbacks: onDestroy, then detachSession and the reference
\* cleared
runDestroyCallbacks ==
  /\ pc = "idle" /\ ~failed /\ ~destroyed
  /\ log' = (IF infoCallback_ THEN <<"info.onDestroy">> ELSE <<>>)
            \o (IF controller_ # NULL
                THEN <<"controller.detachSession">> ELSE <<>>)
  /\ detachCount' = IF controller_ # NULL THEN detachCount + 1 ELSE detachCount
  /\ detachSaw' = IF controller_ # NULL THEN controller_ ELSE detachSaw
  /\ controller_' = NULL
  /\ tornDown' = TRUE
  /\ last' = Plain("runDestroyCallbacks")
  /\ UNCHANGED <<installs,
                 pendingReadSize_, readBufLimit_, infoCallback_, direction, h2,
                 strategy, pc, frame, failed, downCrossed, nCalls,
                 sumPending, budget,
                 lifetime, trackerVars, flagVars>>

\* setController: the reference is stored and the codec's policy derived
\* again from the new controller
setController(controller) ==
  /\ pc = "idle" /\ ~failed /\ ~destroyed /\ nCalls < budget
  /\ nCalls' = nCalls + 1
  /\ controller_' = controller
  /\ installs' = IF controller # NULL THEN installs + 1 ELSE installs
  /\ log' = initCodecHeaderIndexingStrategy(controller, h2)
  /\ strategy' = StrategyAfter(controller, h2, strategy)
  /\ last' = Plain("setController")
  /\ UNCHANGED <<pendingReadSize_, readBufLimit_, infoCallback_, direction, h2,
                 pc, frame, failed, detachCount, tornDown, downCrossed,
                 sumPending, budget, detachSaw, lifetime, trackerVars,
                 flagVars>>

onCodecChanged ==
  /\ pc = "idle" /\ ~failed /\ ~destroyed
  /\ log' = (IF controller_ # NULL
             THEN <<"controller.onSessionCodecChange">> ELSE <<>>)
            \o initCodecHeaderIndexingStrategy(controller_, h2)
  /\ strategy' = StrategyAfter(controller_, h2, strategy)
  /\ last' = Plain("onCodecChanged")
  /\ UNCHANGED <<pendingReadSize_, readBufLimit_, infoCallback_, controller_,
                 direction, h2, pc, frame, failed, detachCount,
                 installs, tornDown,
                 downCrossed, nCalls, sumPending, budget, detachSaw, lifetime,
                 trackerVars, flagVars>>

\* attachToSessionController without its test of the controller pointer
AttachCalls_noTest(ctrl) ==
  <<"controller.attachSession">>

\* the calls attachToSessionController makes
AttachCalls(ctrl) ==
  IF ctrl # NULL THEN <<"controller.attachSession">> ELSE <<>>

attachToSessionController ==
  /\ pc = "idle" /\ ~failed /\ ~destroyed
  /\ log' = AttachCalls(controller_)
  /\ last' = Plain("attachToSessionController")
  /\ UNCHANGED <<pendingReadSize_, sessionRefs, pc, frame, failed,
                 downCrossed, nCalls, sumPending, lifetime>>

\* ------------------------------------------------------------------------
\* Byte-event tracker and stats observer
\* ------------------------------------------------------------------------

\* ByteEventTracker::absorb: the tracker takes over what the other one has
\* pending
absorb(tracker, other) ==
  [tracker EXCEPT !.pending = tracker.pending \cup other.pending]

\* the tracker stored by setByteEventTracker without the absorb
StoredTracker_noAbsorb(new, old, cb, stats) ==
  IF new = NoTracker THEN NoTracker
  ELSE [new EXCEPT !.callback = cb, !.stats = stats]

\* the tracker setByteEventTracker stores: the new one, after it has taken
\* over the old one's pending events, with the callback and the session's
\* stats observer set on it
StoredTracker(new, old, cb, stats) ==
  IF new = NoTracker THEN NoTracker
  ELSE [(IF old # NoTracker THEN absorb(new, old) ELSE new)
          EXCEPT !.callback = cb, !.stats = stats]

setByteEventTracker(new, cb) ==
  /\ pc = "idle" /\ ~failed /\ ~destroyed /\ nCalls < budget
  /\ nCalls' = nCalls + 1
  /\ byteEventTracker_' =
       StoredTracker(new, byteEventTracker_, cb, sessionStats_)
  /\ log' = (IF new # NoTracker /\ byteEventTracker_ # NoTracker
             THEN <<"tracker.absorb">> ELSE <<>>)
            \o (IF new # NoTracker
                THEN <<"tracker.setCallback", "tracker.setTTLBAStats">>
                ELSE <<>>)
  /\ lastTracker' = [new |-> new, old |-> byteEventTracker_, cb |-> cb]
  /\ everPending' = everPending \cup
       (IF byteEventTracker_' # NoTracker
        THEN byteEventTracker_'.pending ELSE {})
  /\ kept' = IF byteEventTracker_' # NoTracker
             THEN kept \cup byteEventTracker_'.pending ELSE {}
  /\ last' = Plain("setByteEventTracker")
  /\ UNCHANGED <<pendingReadSize_, readBufLimit_, infoCallback_, controller_,
                 direction, h2, strategy, pc, frame, failed, detachCount,
                 installs,
                 tornDown, downCrossed, sumPending, budget, detachSaw, lifetime,
                 sessionStats_, flagVars>>

\* the tracker after a setSessionStats that does not reach it
ForwardStats_none(tracker, stats) ==
  tracker

\* the stored tracker after setSessionStats: it reports through the new
\* observer when there is a tracker
ForwardStats(tracker, stats) ==
  IF tracker # NoTracker THEN [tracker EXCEPT !.stats = stats] ELSE tracker

setSessionStats(stats) ==
  /\ pc = "idle" /\ ~failed /\ ~destroyed /\ nCalls < budget
  /\ nCalls' = nCalls + 1
  /\ sessionStats_' = stats
  /\ byteEventTracker_' = ForwardStats(byteEventTracker_, stats)
  /\ log' = IF byteEventTracker_ # NoTracker
            THEN <<"tracker.setTTLBAStats">> ELSE <<>>
  /\ last' = Plain("setSessionStats")
  /\ UNCHANGED <<pendingReadSize_, readBufLimit_, infoCallback_, controller_,
                 direction, h2, strategy, pc, frame, failed, detachCount,
                 installs,
                 tornDown, downCrossed, sumPending, budget, detachSaw, lifetime,
                 lastTracker, everPending, kept, flagVars>>

\* ------------------------------------------------------------------------
\* Extended headers
\* ------------------------------------------------------------------------

\* enableExHeadersSettings without its test of the settings pointer
ExHeaders_noTest(settings, flag) ==
  [settings |-> "1", flag |-> TRUE]

\* the codec's ENABLE_EX_HEADERS egress setting and exHeadersEnabled_ after
\* enableExHeadersSettings
ExHeaders(settings, flag) ==
  IF settings # NoSettings
  THEN [settings |-> "1", flag |-> TRUE]
  ELSE [settings |-> settings, flag |-> flag]

enableExHeadersSettings ==
  /\ pc = "idle" /\ ~failed /\ ~destroyed
  /\ egressSettings' = ExHeaders(egressSettings, exHeadersEnabled_).settings
  /\ exHeadersEnabled_' = ExHeaders(egressSettings, exHeadersEnabled_).flag
  /\ log' = <<"codec.getEgressSettings">>
            \o (IF egressSettings # NoSettings
                THEN <<"settings.setSetting">> ELSE <<>>)
  /\ last' = Plain("enableExHeadersSettings")
  /\ UNCHANGED <<pendingReadSize_, readBufLimit_, infoCallback_, controller_,
                 direction, h2, strategy, pc, frame, failed, detachCount,
                 installs,
                 tornDown, downCrossed, nCalls,
                 sumPending, budget, detachSaw, lifetime,
                 trackerVars, prioritySample_, h2PrioritiesEnabled_>>

\* ------------------------------------------------------------------------
\* Parse errors without a handler
\* ------------------------------------------------------------------------

\* getParseErrorHandler without its look at the transport direction
getParseErrorHandler_anyDirection(dir, ctrl, answer, ub) ==
  IF ctrl = NULL
  THEN [handler |-> IF ub = "crash" THEN NULL ELSE ub,
        calls |-> <<>>,
        crash |-> ub = "crash"]
  ELSE [handler |-> answer,
        calls |-> <<"controller.getParseErrorHandler">>,
        crash |-> FALSE]

\* getParseErrorHandler: the handler it returns, the controller calls it
\* makes, and whether the process dies in it.  `answer` is what the
\* controller's getParseErrorHandler produces; `ub` is what the call through
\* controller_ does when controller_ is null.
getParseErrorHandler(dir, ctrl, answer, ub) ==
  IF dir = "UPSTREAM"
  THEN [handler |-> NULL, calls |-> <<>>, crash |-> FALSE]
  ELSE IF ctrl = NULL
       THEN [handler |-> IF ub = "crash" THEN NULL ELSE ub,
             calls |-> <<>>,
             crash |-> ub = "crash"]
       ELSE [handler |-> answer,
             calls |-> <<"controller.getParseErrorHandler">>,
             crash |-> FALSE]

handleErrorDirectly(answer, ub) ==
  /\ pc = "idle" /\ ~failed /\ ~destroyed
  /\ LET r == getParseErrorHandler(direction, controller_, answer, ub)
     IN  /\ failed' = r.crash
         /\ log' = r.calls \o
              (IF r.crash THEN <<>>
               ELSE IF r.handler = NULL THEN <<"txn.sendAbort">>
               ELSE <<"txn.setHandler">>
                    \o (IF infoCallback_ THEN <<"info.onIngressError">>
                        ELSE <<>>)
                    \o <<"txn.onError">>)
         /\ last' = Call("handleErrorDirectly", Zero32, Zero32, Zero32,
                         r.handler # NULL, r.crash, 0, answer)
  /\ UNCHANGED <<pendingReadSize_, sessionRefs, pc, frame, downCrossed, nCalls,
                 sumPending,
                 lifetime>>

\* ------------------------------------------------------------------------
\* Specification
\* ------------------------------------------------------------------------

Next ==
  \/ \E length \in Lengths, padding \in Paddings : onBodyEnter(length, padding)
  \/ onBodyLeave
  \/ \E bytes \in Bytes : notifyBodyProcessed(bytes)
  \/ runDestroyCallbacks
  \/ onCodecChanged
  \/ attachToSessionController
  \/ enableExHeadersSettings
  \/ \E controller \in Controllers : setController(controller)
  \/ \E stats \in StatsObservers : setSessionStats(stats)
  \/ \E new \in NewTrackers, cb \in Callbacks : setByteEventTracker(new, cb)
  \/ \E answer \in Handlers, ub \in NullCallOutcomes :
       handleErrorDirectly(answer, ub)
  \/ destroy

Spec == Init /\ [][Next]_vars

\* the byte path alone
FlowNext ==
  \/ \E length \in Lengths, padding \in Paddings : onBodyEnter(length, padding)
  \/ onBodyLeave
  \/ \E bytes \in Bytes : notifyBodyProcessed(bytes)

FlowSpec == FlowInit /\ [][FlowNext]_vars

\* the tracker, the stats observer and the attachment, with the byte path
SettingsNext ==
  \/ \E new \in NewTrackers, cb \in Callbacks : setByteEventTracker(new, cb)
  \/ \E stats \in StatsObservers : setSessionStats(stats)
  \/ \E controller \in Controllers : setController(controller)
  \/ attachToSessionController
  \/ \E length \in Lengths, padding \in Paddings : onBodyEnter(length, padding)
  \/ onBodyLeave
  \/ \E bytes \in Bytes : notifyBodyProcessed(bytes)

SettingsSpec == SettingsInit /\ [][SettingsNext]_vars

\* number of times call e is in the log
Count(e) == Len(SelectSeq(log, LAMBDA x : x = e))

\* the log without the calls made on the controller
TxnAndInfoCalls ==
  SelectSeq(log, LAMBDA x : x \notin {"controller.getParseErrorHandler"})

TypeOK ==
  /\ IsU32(pendingReadSize_) /\ IsU32(readBufLimit_)
  /\ pc \in {"idle", "onIngressBody"}
  /\ failed \in BOOLEAN
  /\ nCalls \in 0..budget


\* ------------------------------------------------------------------------
\* Flow-control claims (checked under FlowSpec)
\* ------------------------------------------------------------------------

\* C1: the counter never goes below zero: a notifyBodyProcessed(bytes) that
\* returns took bytes <= pendingReadSize_ off the counter without wrapping,
\* and one with bytes > pendingReadSize_ ends the process and leaves the
\* counter as it was; this holds for calls nested in onBody's delivery too.
C1_CounterNeverNegative ==
  /\ IsU32(pendingReadSize_)
  /\ last.op = "notifyBodyProcessed" =>
       /\ pendingReadSize_ = last.after
       /\ last.fatal <=> Lt32(last.before, last.arg)
       /\ last.fatal => (failed /\ last.after = last.before)
       /\ ~last.fatal =>
            /\ ~failed
            /\ Le32(last.after, last.before)
            /\ Add32(last.after, last.arg) = last.before

\* a notifyBodyProcessed nested in onBody's delivery asked for more than was
\* pending
C1_Witness ==
  /\ last.op = "notifyBodyProcessed" /\ last.fatal
  /\ pc = "onIngressBody"
  /\ Gt32(pendingReadSize_, Zero32)

\* C2: onBody returns true exactly when the size recorded before the
\* increment was <= readBufLimit_ and the size read after the delivery is
\* > readBufLimit_; a true return with an info callback set comes with exactly
\* one onIngressLimitExceeded, a false return with none.  Counter 0, limit
\* 100, 150 unconsumed bytes: counter 150, pause.
C2_PauseIffCrossedUp ==
  last.op = "onBody" =>
    /\ last.after = pendingReadSize_
    /\ last.ret <=> (Le32(last.before, readBufLimit_)
                     /\ Gt32(last.after, readBufLimit_))
    /\ (last.ret /\ infoCallback_) => Count("info.onIngressLimitExceeded") = 1
    /\ ~last.ret => Count("info.onIngressLimitExceeded") = 0
    /\ (/\ last.before = Zero32 /\ readBufLimit_ = U32(0, 100)
        /\ last.arg = U32(0, 150) /\ last.nested = 0)
       => (last.after = U32(0, 150) /\ last.ret)

\* the scenario: counter 0, limit 100, onBody of 150 bytes nobody consumed
C2_Witness ==
  /\ last.op = "onBody" /\ last.nested = 0
  /\ last.before = Zero32 /\ last.arg = U32(0, 150)
  /\ readBufLimit_ = U32(0, 100) /\ infoCallback_
  /\ pendingReadSize_ = U32(0, 150) /\ last.ret
  /\ log = <<"txn.onIngressBody", "info.onIngressLimitExceeded">>


\* C3: the limit-exceeded notification and the pause return fire once per
\* upward crossing: when onBody returns true, no pause has been signalled
\* since the last notifyBodyProcessed that took the counter from above the
\* limit to at or below it (or none was signalled at all), and an onBody that
\* starts above the limit does not signal.
C3_OncePerUpwardCrossing ==
  [][(pc = "onIngressBody" /\ last'.op = "onBody" /\ last'.ret)
       => (downCrossed /\ Le32(frame.oldSize, readBufLimit_))]_vars

\* the resume signal: a notifyBodyProcessed returns true in this step
ResumeFires ==
  /\ nCalls' = nCalls + 1
  /\ last'.op = "notifyBodyProcessed"
  /\ last'.ret

\* C4: the resume signal fires exactly once per downward crossing: a step
\* takes the counter from above the limit to at or below it exactly when a
\* notifyBodyProcessed, nested or not, returns true in that step.
C4_OncePerDownwardCrossing ==
  [][(Gt32(pendingReadSize_, readBufLimit_)
        /\ Le32(pendingReadSize_', readBufLimit_))
       <=> ResumeFires]_vars


\* C5: notifyBodyProcessed(bytes) returns true exactly when the counter was
\* > readBufLimit_ before the decrement and is <= readBufLimit_ after it.  The
\* limit itself counts as not exceeded on both sides: an onBody that leaves
\* the counter at the limit does not pause, a decrement from above the limit
\* to exactly the limit resumes.  Counter 150, limit 100, 60 bytes processed:
\* counter 90, resume.
C5_ResumeIffCrossedDown ==
  /\ (last.op = "notifyBodyProcessed" /\ ~last.fatal) =>
       /\ last.ret <=> (Gt32(last.before, readBufLimit_)
                        /\ Le32(Sub32(last.before, last.arg), readBufLimit_))
       /\ (Gt32(last.before, readBufLimit_) /\ pendingReadSize_ = readBufLimit_)
            => last.ret
       /\ (/\ last.before = U32(0, 150) /\ readBufLimit_ = U32(0, 100)
           /\ last.arg = U32(0, 60))
          => (pendingReadSize_ = U32(0, 90) /\ last.ret)
  /\ (last.op = "onBody" /\ pendingReadSize_ = readBufLimit_) => ~last.ret

\* a decrement from above the limit to exactly the limit
C5_Witness ==
  /\ last.op = "notifyBodyProcessed" /\ ~last.fatal
  /\ Gt32(last.before, readBufLimit_)
  /\ pendingReadSize_ = readBufLimit_
  /\ last.ret

\* the counter after the increment of the onBody that returned last
Incremented == Add32(last.before, last.arg)

\* C6 as stated: onBody signals pause only when the counter did not fall
\* below its incremented value during the delivery, and an onBody with a
\* notifyBodyProcessed nested in its delivery returns false without a
\* notification.
C6_PauseOnlyWithoutConsumption ==
  last.op = "onBody" =>
    /\ last.ret => ~Lt32(last.after, Incremented)
    /\ Lt32(last.after, Incremented) =>
         (~last.ret /\ Count("info.onIngressLimitExceeded") = 0)

\* C6 as amended: onBody adds length + padding to the counter before the
\* delivery, and signals pause or notifies only when the counter read after
\* the delivery is greater than the size recorded before the increment; a
\* transaction that processed fewer bytes than were added still gets the
\* signal when the rest crosses the limit, and one that left the counter at
\* or below the recorded size gets none.
C6_PauseOnlyOnNetGrowth ==
  /\ (pc = "onIngressBody" /\ frame.nested = 0) =>
       pendingReadSize_ = Add32(frame.oldSize, frame.added)
  /\ last.op = "onBody" =>
       /\ last.ret => Lt32(last.before, last.after)
       /\ Le32(last.after, last.before) =>
            (~last.ret /\ Count("info.onIngressLimitExceeded") = 0)

\* an onBody paused although the transaction processed part of the bytes
\* during the delivery
C6_Witness ==
  /\ last.op = "onBody" /\ last.nested > 0
  /\ Lt32(last.after, Incremented)
  /\ Lt32(last.before, Incremented)
  /\ last.ret
  /\ infoCallback_ /\ Count("info.onIngressLimitExceeded") = 1


\* ------------------------------------------------------------------------
\* Error-dispatch and lifecycle claims (checked under Spec)
\* ------------------------------------------------------------------------

\* C7: with a downstream codec and no controller set, handleErrorDirectly
\* aborts the transaction, calls no setHandler and does not fail.
C7_NoControllerAborts ==
  (last.op = "handleErrorDirectly" /\ direction = "DOWNSTREAM"
     /\ controller_ = NULL)
    => (log = <<"txn.sendAbort">> /\ ~failed)

\* C8: with an upstream codec getParseErrorHandler returns no handler and
\* makes no call on the controller, whatever the controller has to offer, and
\* handleErrorDirectly aborts the transaction and calls neither setHandler,
\* onIngressError nor onError.
C8_UpstreamAlwaysAborts ==
  /\ \A c \in {NULL, "controller"}, a \in Handlers, u \in NullCallOutcomes :
       getParseErrorHandler("UPSTREAM", c, a, u) =
         [handler |-> NULL, calls |-> <<>>, crash |-> FALSE]
  /\ (last.op = "handleErrorDirectly" /\ direction = "UPSTREAM") =>
       (log = <<"txn.sendAbort">> /\ ~last.ret /\ ~failed)

\* an upstream session whose controller had a handler to offer aborted
C8_Witness ==
  /\ last.op = "handleErrorDirectly" /\ direction = "UPSTREAM"
  /\ controller_ # NULL /\ last.answer = "handler"
  /\ log = <<"txn.sendAbort">>

\* C9: every handleErrorDirectly ends either with the transaction aborted and
\* nothing else called on it (no handler), or with setHandler, then the info
\* callback's onIngressError if one is set, then onError, and no abort.
C9_AbortOrDeliver ==
  last.op = "handleErrorDirectly" =>
    \/ /\ ~last.ret
       /\ TxnAndInfoCalls = <<"txn.sendAbort">>
    \/ /\ last.ret
       /\ TxnAndInfoCalls =
            <<"txn.setHandler">>
            \o (IF infoCallback_ THEN <<"info.onIngressError">> ELSE <<>>)
            \o <<"txn.onError">>

\* the calls of the log made on the controller
ControllerCalls ==
  SelectSeq(log, LAMBDA x : x \in {"controller.detachSession",
                                   "controller.attachSession",
                                   "controller.onSessionCodecChange",
                                   "controller.getHeaderIndexingStrategy",
                                   "controller.getParseErrorHandler"})

\* C10 as stated: detachSession is called at most once, controller_ is null
\* once runDestroyCallbacks has returned, and an attachToSessionController or
\* onCodecChanged after that makes no call on the controller.
C10_DetachAtMostOnce ==
  /\ detachCount <= 1
  /\ tornDown => controller_ = NULL
  /\ (tornDown /\ last.op \in {"attachToSessionController", "onCodecChanged"})
       => ControllerCalls = <<>>

\* C10 as amended: detachSession is called at most once for each controller
\* set on the session, by the constructor or by setController; when
\* runDestroyCallbacks returns controller_ is null, and it stays null until
\* setController sets a controller again; while it is null a repeated
\* runDestroyCallbacks, an attachToSessionController or an onCodecChanged
\* makes no call on the controller.
C10_DetachOncePerController ==
  /\ detachCount <= installs
  /\ detachCount = installs => controller_ = NULL
  /\ last.op = "runDestroyCallbacks" =>
       /\ controller_ = NULL
       /\ Count("controller.detachSession") <= 1
       /\ detachSaw = NULL => ControllerCalls = <<>>
  /\ (controller_ = NULL
        /\ last.op \in {"attachToSessionController", "onCodecChanged"})
       => ControllerCalls = <<>>

\* a session detached from its controller was given a controller again and
\* torn down again: each controller was detached once
C10_Witness ==
  /\ last.op = "runDestroyCallbacks"
  /\ installs = 2 /\ detachCount = 2
  /\ controller_ = NULL
  /\ log \in {<<"controller.detachSession">>,
              <<"info.onDestroy", "controller.detachSession">>}


\* C11: runDestroyCallbacks calls the info callback's onDestroy (if one is
\* set) before the controller's detachSession; detachSession finds controller_
\* still set, and controller_ is null once the call has returned; with neither
\* an info callback nor a controller the call does nothing.
C11_TeardownOrder ==
  /\ last.op = "runDestroyCallbacks" =>
       /\ controller_ = NULL
       /\ log \in {<<>>, <<"info.onDestroy">>, <<"controller.detachSession">>,
                   <<"info.onDestroy", "controller.detachSession">>}
       /\ (Count("info.onDestroy") = 1) <=> infoCallback_
       /\ (~infoCallback_ /\ detachCount = 0) => log = <<>>
  /\ detachCount > 0 => detachSaw # NULL

\* a teardown with an info callback and a controller
C11_Witness ==
  /\ last.op = "runDestroyCallbacks"
  /\ log = <<"info.onDestroy", "controller.detachSession">>
  /\ detachSaw = "controller" /\ controller_ = NULL


\* C12: while onBody is executing the session is not deallocated: a
\* destruction asked for from inside the delivery is put off, stays pending
\* only for as long as onBody runs, and the reads onBody makes after the
\* delivery are made from a session that is alive.
C12_DestructionDeferred ==
  /\ pc = "onIngressBody" => ~destroyed
  /\ destroyPending => (pc = "onIngressBody" /\ frame.guard)
  /\ (destroyed /\ last.op = "onBody") =>
       /\ last.after = pendingReadSize_
       /\ last.ret <=> (Le32(last.before, readBufLimit_)
                        /\ Gt32(last.after, readBufLimit_))

\* a session destroyed from inside the delivery: onBody still read the
\* counter, notified and returned true before the session went away
C12_Witness ==
  /\ destroyed /\ last.op = "onBody" /\ last.ret
  /\ Count("info.onIngressLimitExceeded") = 1


\* ------------------------------------------------------------------------
\* Tracker, stats and flag claims (checked under SettingsSpec)
\* ------------------------------------------------------------------------

\* C13 as stated: after any sequence of setByteEventTracker calls every event
\* that was pending on an earlier stored tracker is pending on the tracker
\* stored now.
C13_NothingEverLost ==
  byteEventTracker_ # NoTracker =>
    everPending \subseteq byteEventTracker_.pending

\* C13 as amended: a setByteEventTracker with a new tracker and a stored one
\* makes the new one absorb the stored one before it replaces it, so that
\* every event pending on a tracker stored since the stored tracker was last
\* null is pending on the tracker stored now; a null new tracker drops the
\* stored one with what it has pending; absorb is called exactly when both
\* trackers are non-null.
C13_PredecessorAbsorbed ==
  /\ byteEventTracker_ # NoTracker => kept \subseteq byteEventTracker_.pending
  /\ last.op = "setByteEventTracker" =>
       /\ (Count("tracker.absorb") = 1)
            <=> (lastTracker.new # NoTracker /\ lastTracker.old # NoTracker)
       /\ Count("tracker.absorb") <= 1
       /\ (lastTracker.new # NoTracker /\ lastTracker.old # NoTracker) =>
            /\ lastTracker.old.pending \subseteq byteEventTracker_.pending
            /\ lastTracker.new.pending \subseteq byteEventTracker_.pending
       /\ lastTracker.new = NoTracker => byteEventTracker_ = NoTracker

\* a tracker with nothing pending of its own replaced one with events pending
\* and has them now
C13_Witness ==
  /\ last.op = "setByteEventTracker"
  /\ lastTracker.new # NoTracker /\ lastTracker.old # NoTracker
  /\ lastTracker.new.pending = {}
  /\ lastTracker.old.pending = Entries
  /\ byteEventTracker_.pending = Entries
  /\ log = <<"tracker.absorb", "tracker.setCallback", "tracker.setTTLBAStats">>

\* C15: a stored tracker reports through the session's current stats observer
\* and calls back the callback given by the setByteEventTracker that stored
\* it, whatever setSessionStats and setByteEventTracker calls came before; a
\* setSessionStats with no tracker stored writes sessionStats_ and nothing
\* else, and calls nothing.
C15_TrackerFollowsSession ==
  /\ [](byteEventTracker_ # NoTracker =>
          /\ byteEventTracker_.stats = sessionStats_
          /\ byteEventTracker_.callback = lastTracker.cb)
  /\ [][(last'.op = "setSessionStats" /\ byteEventTracker_ = NoTracker) =>
          /\ log' = <<>>
          /\ byteEventTracker_' = NoTracker
          /\ UNCHANGED <<pendingReadSize_, readBufLimit_, infoCallback_,
                         controller_, strategy, flagVars, lifetime>>]_vars

\* a tracker installed under one stats observer has been given another one
\* by setSessionStats
C15_Witness ==
  /\ last.op = "setSessionStats"
  /\ byteEventTracker_ # NoTracker
  /\ byteEventTracker_.callback = "cb2"
  /\ sessionStats_ = "stats2"
  /\ byteEventTracker_.stats = "stats2"
  /\ log = <<"tracker.setTTLBAStats">>

\* C14: onCodecChanged tells the controller of the change before it asks it
\* for the header-indexing strategy, and sets the controller's strategy on
\* the codec exactly when there is a controller and the codec is of the
\* HTTP/2 family; otherwise it leaves the codec's strategy as it was, and in
\* no case does it fail.
C14_NotifyThenStrategy ==
  [][last'.op = "onCodecChanged" =>
       /\ ~failed'
       /\ IF controller_ # NULL /\ h2
          THEN /\ log' = <<"controller.onSessionCodecChange",
                           "controller.getHeaderIndexingStrategy",
                           "codec.setHeaderIndexingStrategy">>
               /\ strategy' = "controller"
          ELSE /\ Len(SelectSeq(log', LAMBDA x :
                        x \in {"controller.getHeaderIndexingStrategy",
                               "codec.setHeaderIndexingStrategy"})) = 0
               /\ strategy' = strategy
       /\ (controller_ # NULL) <=>
            (Len(log') > 0 /\ log'[1] = "controller.onSessionCodecChange")
       /\ controller_ = NULL => log' = <<>>]_vars

\* onCodecChanged has put the controller's strategy on an HTTP/2 codec after
\* telling the controller
C14_Witness ==
  /\ last.op = "onCodecChanged"
  /\ controller_ # NULL /\ h2
  /\ strategy = "controller"
  /\ log = <<"controller.onSessionCodecChange",
             "controller.getHeaderIndexingStrategy",
             "codec.setHeaderIndexingStrategy">>

\* C16: attachToSessionController calls attachSession on the controller once
\* when the session has a controller and calls nothing when it has none; it
\* leaves the controller reference, pendingReadSize_ and the byte-event
\* tracker as they were.
C16_AttachOnly ==
  [][last'.op = "attachToSessionController" =>
       /\ controller_ # NULL => log' = <<"controller.attachSession">>
       /\ controller_ = NULL => log' = <<>>
       /\ ~failed'
       /\ UNCHANGED <<controller_, pendingReadSize_, byteEventTracker_,
                      sessionStats_, readBufLimit_>>]_vars

\* a session with a controller, a tracker and bytes pending has attached
C16_Witness ==
  /\ last.op = "attachToSessionController"
  /\ controller_ # NULL
  /\ byteEventTracker_ # NoTracker
  /\ pendingReadSize_ # Zero32
  /\ log = <<"controller.attachSession">>

\* C17: a step of onBody or of notifyBodyProcessed leaves the controller
\* reference, the stored byte-event tracker, the stats observer, readBufLimit_
\* and every other member but pendingReadSize_ as they were.
C17_BytePathWritesCounterOnly ==
  [][(pc' # pc \/ last'.op = "notifyBodyProcessed") =>
       UNCHANGED <<controller_, byteEventTracker_, sessionStats_,
                   readBufLimit_, infoCallback_, strategy, flagVars>>]_vars

\* an onBody that signalled pause has returned on a session with a
\* controller, a tracker and a stats observer
C17_Witness ==
  /\ last.op = "onBody" /\ last.ret
  /\ pendingReadSize_ # Zero32
  /\ controller_ # NULL
  /\ byteEventTracker_ # NoTracker
  /\ sessionStats_ # NULL

\* C18 as stated: a notifyBodyProcessed that returns true, nested in onBody's
\* delivery or not, comes after an onBody that returned true and that no
\* other resume has answered.
C18_ResumeAnswersPause ==
  [][(nCalls' # nCalls /\ last'.op = "notifyBodyProcessed" /\ last'.ret)
       => ~downCrossed]_vars

\* C18 as amended: a notifyBodyProcessed that returns true comes after an
\* onBody that returned true and that no other resume has answered, unless it
\* is called from inside the delivery of an onBody that started with the
\* counter at or below the limit and whose increment took it above: that one
\* tells the caller to resume although no pause was signalled, and a resume
\* outside a delivery always answers a pause.
C18_ResumeAnswersPauseOrDelivery ==
  [][(nCalls' # nCalls /\ last'.op = "notifyBodyProcessed" /\ last'.ret)
       => \/ ~downCrossed
          \/ /\ pc = "onIngressBody"
             /\ Le32(frame.oldSize, readBufLimit_)
             /\ Gt32(pendingReadSize_, readBufLimit_)]_vars

\* a pause was signalled and a later notifyBodyProcessed, outside any
\* delivery, has answered it
C18_Witness ==
  /\ pc = "idle"
  /\ last.op = "notifyBodyProcessed" /\ last.ret
  /\ downCrossed
  /\ nCalls >= 2
  /\ Gt32(last.before, readBufLimit_)

\* C19: pendingReadSize_ is the 32 low bits of the sum of length + padding
\* over the onBody calls less the sum of bytes over the notifyBodyProcessed
\* calls that passed their check, nested or not, and the sum itself while
\* that is a 32-bit value; an onBody with length + padding = 0 returns false
\* and calls no onIngressLimitExceeded.
C19_CounterIsSum ==
  /\ sumPending.hi >= 0
  /\ pendingReadSize_ = U32(sumPending.hi % Half, sumPending.lo)
  /\ InRange32(sumPending) => pendingReadSize_ = sumPending
  /\ (last.op = "onBody" /\ last.arg = Zero32) =>
       /\ ~last.ret
       /\ Count("info.onIngressLimitExceeded") = 0

\* bytes were added by onBody calls and part of them reported processed, and
\* the counter holds what is left
C19_Witness ==
  /\ pc = "idle"
  /\ last.op = "notifyBodyProcessed" /\ ~last.fatal
  /\ last.arg # Zero32
  /\ nCalls >= 4
  /\ InRange32(sumPending)
  /\ pendingReadSize_ = U32(0, 90)
  /\ sumPending = U32(0, 90)

\* C20: a session is constructed with prioritySample_ false,
\* h2PrioritiesEnabled_ true and exHeadersEnabled_ false;
\* enableExHeadersSettings sets exHeadersEnabled_ and the codec's
\* ENABLE_EX_HEADERS egress setting to 1 when the codec has egress settings,
\* and leaves the flag and the codec as they were when it has none.
C20_FlagsAndExHeaders ==
  /\ (prioritySample_ = FALSE /\ h2PrioritiesEnabled_ = TRUE
        /\ exHeadersEnabled_ = FALSE)
  /\ [](exHeadersEnabled_ => egressSettings = "1")
  /\ [][last'.op = "enableExHeadersSettings" =>
          /\ IF egressSettings # NoSettings
             THEN exHeadersEnabled_' /\ egressSettings' = "1"
             ELSE UNCHANGED <<exHeadersEnabled_, egressSettings>>
          /\ UNCHANGED <<prioritySample_, h2PrioritiesEnabled_>>
          /\ ~failed']_vars

\* enableExHeadersSettings has switched extended headers on, on a codec with
\* egress settings
C20_Witness ==
  /\ last.op = "enableExHeadersSettings"
  /\ exHeadersEnabled_
  /\ egressSettings = "1"
  /\ ~prioritySample_ /\ h2PrioritiesEnabled_
  /\ log = <<"codec.getEgressSettings", "settings.setSetting">>

====
